---- MODULE Spec2Model ----
(***************************************************************************)
(* Session connection controller of the voice client                       *)
(* (client/src/components/VoiceAgent.jsx).                                 *)
(*                                                                         *)
(* The component VoiceAgent owns a LiveKit session (useSession), a retry   *)
(* counter (retryAttemptsRef), a 15 s watchdog timer that the effect on    *)
(* session.connectionState arms and clears, and the backoff timers that    *)
(* handleRetry schedules.  ConnectionControls offers the user the two      *)
(* controls handleConnect and handleDisconnect.                            *)
(*                                                                         *)
(* JavaScript runs every callback to completion, and React runs the        *)
(* effects of a state change before the next timer or network callback:    *)
(* one action below is one callback together with the effects it causes.   *)
(*                                                                         *)
(* The session object comes from @livekit/components-react.  What the      *)
(* model takes from it: connectionState is the state of the one Room of    *)
(* the session; start() waits until the room is disconnected, then asks    *)
(* the token source for a credential and, when it has one, connects the    *)
(* room (which enters "connecting"); a credential failure rejects start()  *)
(* and leaves the room disconnected; end() disconnects the room;           *)
(* isConnected holds in the states connected and reconnecting.            *)
(*                                                                         *)
(* The same file holds TranscriptView (the merge of the two transcript     *)
(* streams that AgentVisualizer forwards to App), the rag-sources data     *)
(* channel handler, and ConnectedMicPanel (push to talk).  Each part has   *)
(* a specification of its own below; Spec is the connection controller.    *)
(*                                                                         *)
(* Of the local participant the model takes: setMicrophoneEnabled is       *)
(* asynchronous (it settles in a later callback); enabling may fail; the   *)
(* calls need not settle in the order they were made (a disable called     *)
(* while an enable still waits for the device waits for it only so long,   *)
(* then returns having muted nothing); a room that disconnects unpublishes *)
(* the local tracks and fails the calls still pending.                     *)
(***************************************************************************)
EXTENDS Integers, Sequences, FiniteSets, TLC

\* ------------------------------------------------------------ constants
\* const maxRetries = 2
maxRetries == 2
\* 700 * retryAttemptsRef.current
BackoffBaseMs == 700
\* setTimeout(() => handleRetry(), 15000)
ConnectWatchdogMs == 15000

\* ------------------------------------------------------------ bounds
\* start() calls that may be suspended at the same time
MaxInFlight == 2
\* the count of credential requests saturates here
MaxAttempts == 5

\* ------------------------------------------------------------ values
\* livekit-client ConnectionState, as the component reads it
Disconnected == "disconnected"
Connecting == "connecting"
Connected == "connected"
Reconnecting == "reconnecting"
ConnectionState == {Disconnected, Connecting, Connected, Reconnecting}

\* no watchdog timer is pending
NoTimer == "none"

VARIABLES
    connectionState,   \* session.connectionState
    retryAttempts,     \* retryAttemptsRef.current
    sessionParams,     \* TRUE: {roomName, participantName}; FALSE: null
    watchdog,          \* NoTimer, or the connectionState the pending 15 s
                       \* timer's handleRetry closure has captured
    backoffTimers,     \* delays (ms) of the pending setTimeout(session.start)
    waiting,           \* start() calls suspended until the room disconnects
    fetching,          \* start() calls suspended at the token source
    attempts,          \* credential requests since the last handleConnect
    fetchSucceeded,    \* some credential request since then has succeeded
    last,              \* the callback that ran last, the state it ran in
                       \* and the response it was given
    agentSegments,     \* agentTranscription.segments
    userSegments,      \* userTranscription.segments
    transcriptData,    \* App: transcriptData
    ragSources,        \* App: ragSources
    isPushToTalkActive,  \* VoiceAgent: isPushToTalkActive
    microphoneEnabled,   \* localParticipant.isMicrophoneEnabled
    micOps,            \* setMicrophoneEnabled calls that have not settled
    activeDeviceId,    \* ConnectedMicPanel: activeDeviceId
    documents,         \* DocumentUpload: documents (their doc_id, in order)
    uploading,         \* DocumentUpload: uploading
    error,             \* DocumentUpload: error ("" for null)
    deletingId,        \* DocumentUpload: deletingId ("" for null)
    errorTimers,       \* the pending setTimeout(() => setError(null), 5000),
                       \* oldest first; TRUE: armed for the error now shown
    pending,           \* the calls of DocumentUpload whose request has not
                       \* settled
    backend            \* the documents the backend holds

\* TranscriptView and the two useTrackTranscription hooks
transcriptVars == <<agentSegments, userSegments, transcriptData>>

\* DocumentUpload and the document backend
docVars == <<documents, uploading, error, deletingId, errorTimers, pending,
             backend>>

\* what the connection controller does not touch
uiVars == <<transcriptVars, ragSources, docVars>>

\* ConnectedMicPanel and the local participant's microphone
talkVars == <<isPushToTalkActive, microphoneEnabled, micOps, activeDeviceId>>

vars == <<connectionState, retryAttempts, sessionParams, watchdog,
          backoffTimers, waiting, fetching, attempts, fetchSucceeded, last,
          uiVars, talkVars>>

\* the variables of the connection controller, but for last
sessionVars == <<connectionState, retryAttempts, sessionParams, watchdog,
                 backoffTimers, waiting, fetching, attempts, fetchSucceeded>>

\* ------------------------------------------------------ token source
\* JavaScript's a || b on strings: the first that is not empty or missing
OrElse(a, b) == IF a # "" THEN a ELSE b

\* What POST /token may answer: apiFetch throws ("error") or returns a body
\* in which each field is present or missing ("")
Responses ==
    { r \in [status : {"ok", "error"},
             participant_token : {"", "t1"},
             accessToken : {"", "t2"},
             token : {"", "t3"},
             server_url : {"", "wss://x"},
             livekit_url : {"", "wss://y"}] :
        r.status = "error" =>
            /\ r.participant_token = "" /\ r.accessToken = "" /\ r.token = ""
            /\ r.server_url = "" /\ r.livekit_url = "" }

\* variant: the aliases are read in the opposite order
participantTokenOf_Reversed(data) ==
    OrElse(data.token, OrElse(data.accessToken, data.participant_token))

participantTokenOf(data) ==
    OrElse(data.participant_token, OrElse(data.accessToken, data.token))

\* variant: the livekit_url alias is not read
serverUrlOf_NoAlias(data) == data.server_url

serverUrlOf(data) == OrElse(data.server_url, data.livekit_url)

\* TokenSource.custom(async (options) => ...): the credential, or a throw
tokenSource(params, data) ==
    IF ~params THEN
        [ok |-> FALSE, participantToken |-> "", serverUrl |-> "",
         error |-> "Session initialization in progress"]
    ELSE IF data.status = "error" THEN
        [ok |-> FALSE, participantToken |-> "", serverUrl |-> "",
         error |-> "HTTP"]
    ELSE IF participantTokenOf(data) = "" \/ serverUrlOf(data) = "" THEN
        [ok |-> FALSE, participantToken |-> "", serverUrl |-> "",
         error |-> "Token endpoint response missing LiveKit connection fields"]
    ELSE
        [ok |-> TRUE, participantToken |-> participantTokenOf(data),
         serverUrl |-> serverUrlOf(data), error |-> ""]

\* ------------------------------------------------------------ effects
\* variant: the watchdog is armed for Connecting alone
WatchdogEffect_ConnectingOnly(state) ==
    IF state = Connecting THEN state ELSE NoTimer

\* variant: the effect has no cleanup, a timer outlives the state it was
\* armed in
WatchdogEffect_NoCleanup(state) ==
    IF state = Connecting \/ state = Reconnecting THEN state ELSE watchdog

\* useEffect on connectionState: the cleanup clears the pending watchdog and
\* a new one is armed when the state is Connecting or Reconnecting
WatchdogEffect(state) ==
    IF state = Connecting \/ state = Reconnecting THEN state ELSE NoTimer

\* variant: the counter is never reset
RetryResetEffect_Never(state, count) == count

\* useEffect on connectionState: Connected resets the retry counter
RetryResetEffect(state, count) ==
    IF state = Connected THEN 0 ELSE count

\* variant: handleRetry does not look at the counter
RetryAllowed_AnyCount(count, state) ==
    ~(state # Connecting /\ state # Reconnecting)

\* the guards of handleRetry: neither early return is taken
RetryAllowed(count, state) ==
    /\ ~(count >= maxRetries)
    /\ ~(state # Connecting /\ state # Reconnecting)

\* variant: the delay is as long as the watchdog's
BackoffDelay_AsWatchdog(count) == ConnectWatchdogMs * count

\* variant: the delay does not grow with the counter
BackoffDelay_Flat(count) == BackoffBaseMs

\* 700 * retryAttemptsRef.current, read after the increment
BackoffDelay(count) == BackoffBaseMs * count

\* ConnectionControls: session.isConnected and isConnecting
isConnected == connectionState = Connected \/ connectionState = Reconnecting

isConnecting ==
    connectionState = Connecting \/ connectionState = Reconnecting

\* the Start Call button is rendered and not disabled
StartEnabled == ~isConnected /\ ~isConnecting

\* the End Call button is rendered
EndEnabled == isConnected

Bump(n) == IF n < MaxAttempts THEN n + 1 ELSE MaxAttempts

Plus(n, k) == IF n + k < MaxAttempts THEN n + k ELSE MaxAttempts

\* a state change of the room, with the two effects that follow it
SetState(state, count) ==
    /\ connectionState' = state
    /\ watchdog' = WatchdogEffect(state)
    /\ retryAttempts' = RetryResetEffect(state, count)

\* no response: the callback was not given one
NoData ==
    [status |-> "none", participant_token |-> "", accessToken |-> "",
     token |-> "", server_url |-> "", livekit_url |-> ""]

\* no credential has been requested yet
NoRequest == [roomName |-> "", participantName |-> ""]

\* crypto.randomUUID() of the useState initializer, which runs once, when
\* the component mounts: no callback draws another
sessionId == "uuid-1"

\* getToken(roomName, participantName, ...) of the token source
getTokenArgs(params) ==
    IF params
    THEN [roomName |-> "voice-demo-" \o sessionId,
          participantName |-> "user-" \o sessionId]
    ELSE NoRequest

\* the callback has not called session.start
NoStart == [called |-> FALSE, microphone |-> "", preConnectBuffer |-> ""]

\* the options of the session.start call of a callback: handleConnect
\* passes tracks.microphone {enabled: false, publishOptions:
\* {preConnectBuffer: false, ...}}, the timer of handleRetry passes nothing
\* and leaves both to the defaults of the session
StartCall(op) ==
    IF op = "handleConnect"
    THEN [called |-> TRUE, microphone |-> "disabled",
          preConnectBuffer |-> "off"]
    ELSE IF op = "backoff"
    THEN [called |-> TRUE, microphone |-> "default",
          preConnectBuffer |-> "default"]
    ELSE NoStart

\* the record of the callback that ran, the session.start call it made,
\* the credential request it made if it made one, else the one made last
Ran(op, data) ==
    [op |-> op, from |-> connectionState, data |-> data,
     start |-> StartCall(op),
     request |-> IF op \in {"credential", "credentialError"} /\ sessionParams
                 THEN getTokenArgs(sessionParams)
                 ELSE last.request]

\* the controller as session.end() sees it
Controller ==
    [connectionState |-> connectionState, retryAttempts |-> retryAttempts,
     watchdog |-> watchdog, backoffTimers |-> backoffTimers,
     waiting |-> waiting, fetching |-> fetching, attempts |-> attempts]

\* session.end() called on the controller c: room.disconnect(), which
\* returns at once when the room is disconnected, and the effects of the
\* state change otherwise; the backoff timers are not touched
AfterEnd(c) ==
    IF c.connectionState = Disconnected THEN c
    ELSE [c EXCEPT !.connectionState = Disconnected,
                   !.watchdog = WatchdogEffect(Disconnected),
                   !.retryAttempts =
                      RetryResetEffect(Disconnected, c.retryAttempts),
                   !.fetching = c.fetching + c.waiting,
                   !.waiting = 0,
                   !.attempts = Plus(c.attempts, c.waiting)]

\* the controller becomes c
Becomes(c) ==
    /\ connectionState' = c.connectionState
    /\ retryAttempts' = c.retryAttempts
    /\ watchdog' = c.watchdog
    /\ backoffTimers' = c.backoffTimers
    /\ waiting' = c.waiting
    /\ fetching' = c.fetching
    /\ attempts' = c.attempts

\* what a step of the room does to the local microphone: leaving the room
\* unpublishes the local tracks and fails the calls that are pending; the
\* flag is React state of VoiceAgent, which no room event sets; the device
\* chosen is state of ConnectedMicPanel, which is lost when it unmounts
LocalTracks ==
    /\ isPushToTalkActive' = isPushToTalkActive
    /\ IF connectionState' = Disconnected /\ connectionState # Disconnected
       THEN /\ microphoneEnabled' = FALSE
            /\ micOps' = <<>>
       ELSE UNCHANGED <<microphoneEnabled, micOps>>
    /\ activeDeviceId' =
         IF connectionState' \in {Connected, Reconnecting}
         THEN activeDeviceId ELSE ""

\* ------------------------------------------------------------ initial
\* the call of loadDocuments that the mount effect of DocumentUpload makes
MountLoad == [kind |-> "load", files |-> <<>>, pos |-> 0, id |-> ""]

Init ==
    /\ connectionState = Disconnected
    /\ retryAttempts = 0
    /\ sessionParams \in BOOLEAN
    /\ watchdog = NoTimer
    /\ backoffTimers = <<>>
    /\ waiting = 0
    /\ fetching = 0
    /\ attempts = 0
    /\ fetchSucceeded = FALSE
    /\ last = [op |-> "init", from |-> Disconnected, data |-> NoData,
               start |-> NoStart, request |-> NoRequest]
    /\ agentSegments = <<>>
    /\ userSegments = <<>>
    /\ transcriptData = [agent |-> <<>>, user |-> <<>>]
    /\ ragSources = [kind |-> "array", items |-> <<>>]
    /\ isPushToTalkActive = FALSE
    /\ microphoneEnabled = FALSE
    /\ micOps = <<>>
    /\ activeDeviceId = ""
    /\ documents = <<>>
    /\ uploading = FALSE
    /\ error = ""
    /\ deletingId = ""
    /\ errorTimers = <<>>
    /\ pending = <<MountLoad>>
    /\ backend = {}

\* ------------------------------------------------------------ actions
\* ConnectionControls.handleConnect: session.start({tracks: ...})
handleConnect ==
    /\ StartEnabled
    /\ fetching + waiting < MaxInFlight
    /\ fetching' = fetching + 1
    /\ attempts' = 1
    /\ fetchSucceeded' = FALSE
    /\ last' = Ran("handleConnect", NoData)
    /\ UNCHANGED <<connectionState, retryAttempts, sessionParams, watchdog,
                   backoffTimers, waiting>>
    /\ UNCHANGED uiVars
    /\ LocalTracks

\* ConnectionControls.handleDisconnect: session.end()
handleDisconnect ==
    /\ EndEnabled
    /\ SetState(Disconnected, retryAttempts)
    /\ fetching' = fetching + waiting
    /\ waiting' = 0
    /\ attempts' = Plus(attempts, waiting)
    /\ last' = Ran("handleDisconnect", NoData)
    /\ UNCHANGED <<sessionParams, backoffTimers, fetchSucceeded>>
    /\ UNCHANGED uiVars
    /\ LocalTracks

\* the token source of one suspended start() settles; with a credential the
\* room connects, which a disconnected room answers by entering Connecting
TokenSourceSettles ==
    /\ fetching > 0
    /\ \E data \in Responses :
        LET got == tokenSource(sessionParams, data) IN
        /\ fetching' = fetching - 1
        /\ fetchSucceeded' = (fetchSucceeded \/ got.ok)
        /\ IF got.ok /\ connectionState = Disconnected
           THEN SetState(Connecting, retryAttempts)
           ELSE UNCHANGED <<connectionState, watchdog, retryAttempts>>
        /\ last' = Ran(IF got.ok THEN "credential" ELSE "credentialError",
                       data)
    /\ UNCHANGED <<sessionParams, backoffTimers, waiting, attempts>>
    /\ UNCHANGED uiVars
    /\ LocalTracks

\* the join succeeds
RoomConnected ==
    /\ connectionState = Connecting
    /\ SetState(Connected, retryAttempts)
    /\ last' = Ran("connected", NoData)
    /\ UNCHANGED <<sessionParams, backoffTimers, waiting, fetching, attempts,
                   fetchSucceeded>>
    /\ UNCHANGED uiVars
    /\ LocalTracks

\* the transport drops
RoomReconnecting ==
    /\ connectionState = Connected
    /\ SetState(Reconnecting, retryAttempts)
    /\ last' = Ran("transportDrop", NoData)
    /\ UNCHANGED <<sessionParams, backoffTimers, waiting, fetching, attempts,
                   fetchSucceeded>>
    /\ UNCHANGED uiVars
    /\ LocalTracks

\* the transport comes back
RoomReconnected ==
    /\ connectionState = Reconnecting
    /\ SetState(Connected, retryAttempts)
    /\ last' = Ran("reconnected", NoData)
    /\ UNCHANGED <<sessionParams, backoffTimers, waiting, fetching, attempts,
                   fetchSucceeded>>
    /\ UNCHANGED uiVars
    /\ LocalTracks

\* the room gives up or is closed from the far side
RoomDisconnected ==
    /\ connectionState # Disconnected
    /\ SetState(Disconnected, retryAttempts)
    /\ fetching' = fetching + waiting
    /\ waiting' = 0
    /\ attempts' = Plus(attempts, waiting)
    /\ last' = Ran("roomClosed", NoData)
    /\ UNCHANGED <<sessionParams, backoffTimers, fetchSucceeded>>
    /\ UNCHANGED uiVars
    /\ LocalTracks

\* the 15 s timer fires: handleRetry().  A backoff timer is set only by a
\* handleRetry that also ends the session, so every watchdog pending with it
\* was armed later, and 700 * count < 15000: the backoff timer fires first.
WatchdogFires ==
    /\ watchdog # NoTimer
    /\ \A i \in DOMAIN backoffTimers : backoffTimers[i] >= ConnectWatchdogMs
    /\ IF RetryAllowed(retryAttempts, watchdog)
       THEN /\ SetState(Disconnected, retryAttempts + 1)
            /\ backoffTimers' =
                 Append(backoffTimers, BackoffDelay(retryAttempts + 1))
            /\ fetching' = fetching + waiting
            /\ waiting' = 0
            /\ attempts' = Plus(attempts, waiting)
       ELSE /\ watchdog' = NoTimer
            /\ UNCHANGED <<connectionState, retryAttempts, backoffTimers,
                           fetching, waiting, attempts>>
    /\ last' = Ran("watchdog", NoData)
    /\ UNCHANGED <<sessionParams, fetchSucceeded>>
    /\ UNCHANGED uiVars
    /\ LocalTracks

\* a backoff timer fires: session.start()
BackoffFires ==
    /\ fetching + waiting < MaxInFlight
    /\ \E i \in DOMAIN backoffTimers :
        backoffTimers' = SubSeq(backoffTimers, 1, i - 1)
                           \o SubSeq(backoffTimers, i + 1, Len(backoffTimers))
    /\ IF connectionState = Disconnected
       THEN /\ fetching' = fetching + 1
            /\ attempts' = Bump(attempts)
            /\ waiting' = waiting
       ELSE /\ waiting' = waiting + 1
            /\ UNCHANGED <<fetching, attempts>>
    /\ last' = Ran("backoff", NoData)
    /\ UNCHANGED <<connectionState, retryAttempts, sessionParams, watchdog,
                   fetchSucceeded>>
    /\ UNCHANGED uiVars
    /\ LocalTracks

Next ==
    \/ handleConnect
    \/ handleDisconnect
    \/ TokenSourceSettles
    \/ RoomConnected
    \/ RoomReconnecting
    \/ RoomReconnected
    \/ RoomDisconnected
    \/ WatchdogFires
    \/ BackoffFires

Spec == Init /\ [][Next]_vars

\* timers fire and a network request settles; the transport may stay silent
FairSpec ==
    /\ Spec
    /\ WF_vars(WatchdogFires)
    /\ WF_vars(BackoffFires)
    /\ WF_vars(TokenSourceSettles)

TypeOK ==
    /\ connectionState \in ConnectionState
    /\ retryAttempts \in 0..maxRetries
    /\ sessionParams \in BOOLEAN
    /\ watchdog \in {NoTimer, Connecting, Reconnecting}
    /\ backoffTimers \in Seq(Nat)
    /\ waiting \in 0..MaxInFlight
    /\ fetching \in 0..MaxInFlight
    /\ attempts \in 0..MaxAttempts
    /\ fetchSucceeded \in BOOLEAN

\* ------------------------------------------------------------ transcripts
\* bounds of the transcript streams
MaxTime == 1

\* segment ids of the agent's and of the user's stream (an id is unique only
\* within a stream), and the texts a segment may carry: blank once trimmed,
\* or not
AgentIds == {"s1", "s2"}
UserIds == {"s1"}
Texts == {" ", "a "}
Times == 0..MaxTime

\* a segment without a text
NoText == "(undefined)"

\* variant: the text is tested as it is
Trim_None(text) == text

\* segment.text?.trim() on the texts of the model; on a missing text it is
\* undefined, which the test of TranscriptView takes as it takes ""
Trim(text) ==
    CASE text = " " -> ""
      [] text = "a " -> "a"
      [] text = NoText -> ""
      [] OTHER -> text

\* one transcription update of a stream
Updates(ids) ==
    [id : ids, text : Texts, final : BOOLEAN, firstReceivedTime : Times]

\* the position of the segment with this id, 0 when there is none
IndexOf(segments, id) ==
    IF \E i \in DOMAIN segments : segments[i].id = id
    THEN CHOOSE i \in DOMAIN segments : segments[i].id = id
    ELSE 0

\* variant: an update is appended, also when its id is known
Upsert_Append(segments, seg) == Append(segments, seg)

\* the segments of one stream after an update: a known id is replaced in
\* place and keeps the time of its first receipt, a new id is appended
Upsert(segments, seg) ==
    LET i == IndexOf(segments, seg.id) IN
    IF i = 0
    THEN Append(segments, seg)
    ELSE [segments EXCEPT ![i] =
            [seg EXCEPT !.firstReceivedTime = segments[i].firstReceivedTime]]

\* segment.id || `${role}-${segment.firstReceivedTime}`
ViewId(role, seg) ==
    IF seg.id # "" THEN seg.id
    ELSE role \o "-" \o ToString(seg.firstReceivedTime)

\* variant: the flag is read from a field the segment does not have
ViewEntry_NoFinal(role, seg) ==
    [role |-> role, text |-> seg.text, id |-> ViewId(role, seg),
     isFinal |-> FALSE, timestamp |-> seg.firstReceivedTime]

\* the object TranscriptView pushes for a segment (firstReceivedTime || 0 is
\* the time itself on numbers)
ViewEntry(role, seg) ==
    [role |-> role, text |-> seg.text, id |-> ViewId(role, seg),
     isFinal |-> seg.final, timestamp |-> seg.firstReceivedTime]

\* for (const segment of ...) if (segment.text?.trim()) allSegments.push(...)
RECURSIVE Pushed(_, _)
Pushed(role, segments) ==
    IF segments = <<>> THEN <<>>
    ELSE LET rest == Pushed(role, Tail(segments)) IN
         IF Trim(Head(segments).text) # ""
         THEN <<ViewEntry(role, Head(segments))>> \o rest
         ELSE rest

\* variant: an entry goes before the entries of its own timestamp
InsertSorted_Unstable(sorted, entry) ==
    LET n == Cardinality({i \in DOMAIN sorted :
                            sorted[i].timestamp < entry.timestamp}) IN
    SubSeq(sorted, 1, n) \o <<entry>> \o SubSeq(sorted, n + 1, Len(sorted))

\* one step of the stable sort: an entry goes after every entry whose
\* timestamp is not greater (the comparator returns <= 0 for them)
InsertSorted(sorted, entry) ==
    LET n == Cardinality({i \in DOMAIN sorted :
                            sorted[i].timestamp - entry.timestamp <= 0}) IN
    SubSeq(sorted, 1, n) \o <<entry>> \o SubSeq(sorted, n + 1, Len(sorted))

\* allSegments.sort((a, b) => a.timestamp - b.timestamp): Array.prototype.sort
\* is stable
RECURSIVE SortByTimestamp(_)
SortByTimestamp(entries) ==
    IF entries = <<>> THEN <<>>
    ELSE InsertSorted(SortByTimestamp(SubSeq(entries, 1, Len(entries) - 1)),
                      entries[Len(entries)])

\* variant: the view is kept between updates and the entry of the segment
\* updated last is put at its end
allSegments_Incremental(data) ==
    LET v == SortByTimestamp(Pushed("agent", data.agent)
                               \o Pushed("user", data.user))
        isLast(e) == /\ last.op \in {"transcription", "transcriptionSame"}
                     /\ e.role = last.data.role
                     /\ e.id = last.data.id
    IN  SelectSeq(v, LAMBDA e : ~isLast(e)) \o SelectSeq(v, isLast)

\* TranscriptView: the agent's segments, then the user's, then the sort
allSegments(data) ==
    SortByTimestamp(Pushed("agent", data.agent) \o Pushed("user", data.user))

\* key={segment.id}: the identity React gives the rendered entry
RenderKey(entry) == entry.id

\* the update repeats what the stream holds for its id
SameContent(segments, seg) ==
    \E i \in DOMAIN segments :
        /\ segments[i].id = seg.id
        /\ segments[i].text = seg.text
        /\ segments[i].final = seg.final

\* the record of a transcription callback
RanUpdate(role, segments, seg) ==
    Ran(IF SameContent(segments, seg) THEN "transcriptionSame"
        ELSE "transcription",
        [role |-> role, id |-> seg.id, text |-> seg.text,
         final |-> seg.final, firstReceivedTime |-> seg.firstReceivedTime])

\* the agent's stream has an update; AgentVisualizer forwards both streams
\* to App (onTranscriptUpdate -> setTranscriptData)
AgentTranscription ==
    /\ \E seg \in Updates(AgentIds) :
        /\ agentSegments' = Upsert(agentSegments, seg)
        /\ last' = RanUpdate("agent", agentSegments, seg)
    /\ userSegments' = userSegments
    /\ transcriptData' = [agent |-> agentSegments', user |-> userSegments']
    /\ UNCHANGED <<sessionVars, ragSources, talkVars, docVars>>

\* the user's stream has an update
UserTranscription ==
    /\ \E seg \in Updates(UserIds) :
        /\ userSegments' = Upsert(userSegments, seg)
        /\ last' = RanUpdate("user", userSegments, seg)
    /\ agentSegments' = agentSegments
    /\ transcriptData' = [agent |-> agentSegments', user |-> userSegments']
    /\ UNCHANGED <<sessionVars, ragSources, talkVars, docVars>>

TranscriptNext ==
    \/ AgentTranscription
    \/ UserTranscription

\* a page that has its session parameters
TranscriptInit == Init /\ sessionParams

\* the transcript streams alone
TranscriptSpec == TranscriptInit /\ [][TranscriptNext]_vars

\* the texts a segment may come with: none, empty, blank, not blank
AnyTexts == {NoText, "", " ", "a "}

\* what a stream may hold: segments of distinct ids
Streams(ids) ==
    {segments \in UNION {[1..n -> [id : ids, text : AnyTexts,
                                    final : BOOLEAN,
                                    firstReceivedTime : Times]] :
                            n \in 0..Cardinality(ids)} :
        \A i, j \in DOMAIN segments :
            segments[i].id = segments[j].id => i = j}

\* the two streams hold what they hold, App has been given nothing yet
ViewInit ==
    /\ connectionState = Disconnected
    /\ retryAttempts = 0
    /\ sessionParams = TRUE
    /\ watchdog = NoTimer
    /\ backoffTimers = <<>>
    /\ waiting = 0
    /\ fetching = 0
    /\ attempts = 0
    /\ fetchSucceeded = FALSE
    /\ last = [op |-> "init", from |-> Disconnected, data |-> NoData,
               start |-> NoStart, request |-> NoRequest]
    /\ agentSegments \in Streams(AgentIds)
    /\ userSegments \in Streams(UserIds)
    /\ transcriptData = [agent |-> <<>>, user |-> <<>>]
    /\ ragSources = [kind |-> "array", items |-> <<>>]
    /\ isPushToTalkActive = FALSE
    /\ microphoneEnabled = FALSE
    /\ micOps = <<>>
    /\ activeDeviceId = ""
    /\ documents = <<>>
    /\ uploading = FALSE
    /\ error = ""
    /\ deletingId = ""
    /\ errorTimers = <<>>
    /\ pending = <<MountLoad>>
    /\ backend = {}

\* the effect of AgentVisualizer forwards the segments of both streams:
\* onTranscriptUpdate -> setTranscriptData, and TranscriptView renders them
ForwardTranscripts ==
    /\ transcriptData # [agent |-> agentSegments, user |-> userSegments]
    /\ transcriptData' = [agent |-> agentSegments, user |-> userSegments]
    /\ last' = Ran("forward", NoData)
    /\ UNCHANGED <<sessionVars, agentSegments, userSegments, ragSources,
                   talkVars, docVars>>

\* TranscriptView on any segments
ViewSpec == ViewInit /\ [][ForwardTranscripts]_vars

\* the view is recomputed at every update of a stream, or once for the
\* segments a batch of earlier updates has left
RecomputeNext ==
    \/ AgentTranscription
    \/ UserTranscription
    \/ ForwardTranscripts

RecomputeSpec == ViewInit /\ [][RecomputeNext]_vars

\* ------------------------------------------------------------ citations
\* sources of one message
MaxSources == 2

Contents == {"A", "B"}

\* the sources arrays a message may carry: {content, ...} objects
SourceArrays ==
    UNION {[1..n -> [content : Contents]] : n \in 0..MaxSources}

\* what data.sources may be: missing, null, an array, or a string
SourcesValues ==
    {[kind |-> "missing", items |-> <<>>],
     [kind |-> "null", items |-> <<>>],
     [kind |-> "string", items |-> <<>>]}
      \cup {[kind |-> "array", items |-> a] : a \in SourceArrays}

\* what the payload of a message may decode to: text JSON.parse throws on,
\* the JSON null, or an object with or without type and sources
Messages ==
    [parses : {"throws", "null"}, type : {""},
     sources : {[kind |-> "missing", items |-> <<>>]}]
      \cup [parses : {"object"}, type : {"", "rag_sources", "other"},
            sources : SourcesValues]

\* JavaScript's truthiness of data.sources: an array (empty or not) and a
\* non-empty string are truthy, undefined and null are not
Truthy(sources) == sources.kind \in {"array", "string"}

\* data.type === 'rag_sources' && data.sources (a property read of the JSON
\* null throws, which the catch swallows like a parse error)
Accepted(msg) ==
    /\ msg.parses = "object"
    /\ msg.type = "rag_sources"
    /\ Truthy(msg.sources)

\* variant: the new sources are added to the ones shown
RagSourcesAfter_Merged(current, msg) ==
    IF Accepted(msg)
    THEN [kind |-> msg.sources.kind,
          items |-> current.items \o msg.sources.items]
    ELSE current

\* App.ragSources after the handler: onRagSourcesUpdate(data.sources) ->
\* setRagSources(sources), or nothing
RagSourcesAfter(current, msg) ==
    IF Accepted(msg) THEN msg.sources ELSE current

\* a message arrives on the topic rag-sources of the connected room
RagSourcesMessage ==
    /\ connectionState = Connected
    /\ \E msg \in Messages :
        /\ ragSources' = RagSourcesAfter(ragSources, msg)
        /\ last' = Ran("ragSources", msg)
    /\ UNCHANGED <<sessionVars, transcriptVars, talkVars, docVars>>

CitationNext ==
    \/ Next
    \/ RagSourcesMessage

\* the connection controller with the data channel
CitationSpec == TranscriptInit /\ [][CitationNext]_vars

\* ------------------------------------------------------------ push to talk
\* setMicrophoneEnabled calls pending at once
MaxMicOps == 2

\* useMediaDevices({kind: 'audioinput'})
Devices == {"mic-1"}

\* the events whose window listeners release the button
ReleaseEvents == {"pointerup", "pointercancel", "blur"}

\* ConnectedMicPanel is rendered while session.isConnected
PanelMounted == isConnected

\* the effect of ConnectedMicPanel has its window listeners installed
ReleaseListeners == PanelMounted /\ isPushToTalkActive

\* n pending setMicrophoneEnabled(false)
Disables(n) == [i \in 1..n |-> "disable"]

\* stopTalking run by n handlers of one event: setIsPushToTalkActive(false),
\* then setMicrophoneEnabled(false), which settles later
stopTalkingTimes(n) ==
    /\ isPushToTalkActive' = FALSE
    /\ micOps' = micOps \o Disables(n)
    /\ UNCHANGED <<microphoneEnabled, activeDeviceId>>

\* pointerdown on the button: setIsPushToTalkActive(true), then
\* setMicrophoneEnabled(true, ...), which settles later
startTalking ==
    /\ PanelMounted
    /\ Len(micOps) < MaxMicOps
    /\ isPushToTalkActive' = TRUE
    /\ micOps' = Append(micOps, "enable")
    /\ last' = Ran("startTalking", NoData)
    /\ UNCHANGED <<sessionVars, uiVars, microphoneEnabled, activeDeviceId>>

\* the pointer goes up or is cancelled, on the button or elsewhere, or the
\* window loses focus: the button's handler and the window's listener run
\* stopTalking, each if it is there
InputLost ==
    \E event \in ReleaseEvents, onButton \in BOOLEAN :
        LET handlers ==
                (IF ReleaseListeners THEN 1 ELSE 0)
                  + (IF PanelMounted /\ onButton /\ event # "blur"
                     THEN 1 ELSE 0)
        IN  /\ Len(micOps) + handlers <= MaxMicOps
            /\ IF handlers > 0 THEN stopTalkingTimes(handlers)
               ELSE UNCHANGED talkVars
            /\ last' = Ran(event, NoData)
            /\ UNCHANGED <<sessionVars, uiVars>>

\* the pointer leaves the button: onPointerLeave = stopTalking
pointerLeave ==
    /\ PanelMounted
    /\ Len(micOps) < MaxMicOps
    /\ stopTalkingTimes(1)
    /\ last' = Ran("pointerleave", NoData)
    /\ UNCHANGED <<sessionVars, uiVars>>

\* the pending calls that may settle next: any of them
Settling(ops) == DOMAIN ops

\* the sequence without its i-th element
Without(ops, i) == SubSeq(ops, 1, i - 1) \o SubSeq(ops, i + 1, Len(ops))

\* variant: a rejected device call ends the session
Rejected_EndsSession(c) == AfterEnd(c)

\* what a rejected device call does to the controller c: the promise of
\* startTalking and of handleMicSourceChange is dropped by the event
\* dispatch, the one of stopTalking by handleRelease's catch or by the
\* event dispatch
Rejected(c) == c

\* the name of the callback in which the call op settles
Settled(op, done) ==
    IF op = "enable" THEN (IF done THEN "micEnabled" ELSE "micError")
    ELSE IF op = "disable"
    THEN (IF done THEN "micDisabled" ELSE "micMuteError")
    ELSE (IF done THEN "deviceSwitched" ELSE "switchError")

\* the select of microphones changes: setActiveDeviceId(deviceId), then
\* session.room.switchActiveDevice(...); what follows the await touches no
\* state, so the handler and the settling of its call are one step
handleMicSourceChange ==
    /\ PanelMounted
    /\ \E deviceId \in Devices, done \in BOOLEAN :
        /\ activeDeviceId' = deviceId
        /\ last' = Ran(Settled("switch", done), NoData)
        /\ Becomes(IF done THEN Controller ELSE Rejected(Controller))
    /\ UNCHANGED <<sessionParams, fetchSucceeded, uiVars, isPushToTalkActive,
                   microphoneEnabled, micOps>>

\* a pending setMicrophoneEnabled settles: the track is published or
\* muted, or the call fails (no permission, no device)
MicOpSettles ==
    /\ micOps # <<>>
    /\ \E i \in Settling(micOps), done \in BOOLEAN :
        /\ microphoneEnabled' =
             IF ~done THEN microphoneEnabled ELSE micOps[i] = "enable"
        /\ last' = Ran(Settled(micOps[i], done), NoData)
        /\ micOps' = Without(micOps, i)
        /\ Becomes(IF done THEN Controller ELSE Rejected(Controller))
    /\ UNCHANGED <<sessionParams, fetchSucceeded, uiVars, isPushToTalkActive,
                   activeDeviceId>>

TalkNext ==
    \/ Next
    \/ startTalking
    \/ InputLost
    \/ pointerLeave
    \/ handleMicSourceChange
    \/ MicOpSettles

\* the connection controller with the talk button
TalkSpec == TranscriptInit /\ [][TalkNext]_vars

\* ------------------------------------------------------------ claims
\* nothing of the controller is pending: no timer, no suspended start()
Quiescent ==
    /\ fetching = 0
    /\ waiting = 0
    /\ backoffTimers = <<>>
    /\ watchdog = NoTimer

InProgress == {Connecting, Reconnecting}

\* C1: with a credential provider that fails on every call, one start() has
\* made exactly 1 + maxRetries = 3 connection attempts by the time nothing
\* more is pending.
C1_ThreeAttemptsWhenProviderFails ==
    (attempts >= 1 /\ ~fetchSucceeded /\ Quiescent)
        => attempts = 1 + maxRetries

\* C2: when end() has returned the state is Disconnected and no timer is
\* pending, neither the watchdog nor a backoff timer.
C2_EndCancelsTimers ==
    last.op = "handleDisconnect"
        => /\ connectionState = Disconnected
           /\ watchdog = NoTimer
           /\ backoffTimers = <<>>

\* C3: a watchdog that fires in Connecting or Reconnecting with the retry
\* budget used up moves the controller out of Connecting/Reconnecting.
C3_ExhaustedWatchdogLeavesConnecting ==
    [][(/\ last'.op = "watchdog"
        /\ watchdog \in InProgress
        /\ retryAttempts >= maxRetries)
          => connectionState' \notin InProgress]_vars

\* C4: a watchdog that fires in Connecting or Reconnecting with budget left
\* increments retryCount by one, ends the session and schedules one start()
\* after 700 ms times the new retryCount (700, then 1400), without starting
\* yet; the timer, when it fires, is consumed and calls start() once.
C4_RetryStep ==
    [][/\ (/\ last'.op = "watchdog"
           /\ watchdog \in InProgress
           /\ retryAttempts < maxRetries)
             => /\ retryAttempts' = retryAttempts + 1
                /\ connectionState' = Disconnected
                /\ backoffTimers' =
                     Append(backoffTimers,
                            IF retryAttempts' = 1 THEN 700 ELSE 1400)
                /\ fetching' + waiting' = fetching + waiting
       /\ last'.op = "backoff"
             => /\ Len(backoffTimers') = Len(backoffTimers) - 1
                /\ fetching' + waiting' = fetching + waiting + 1
                /\ retryAttempts' = retryAttempts]_vars

\* the second retry has just been scheduled
C4_Witness ==
    /\ last.op = "watchdog"
    /\ last.from = Connecting
    /\ retryAttempts = 2
    /\ connectionState = Disconnected
    /\ backoffTimers = <<1400>>

\* the response carries a participant token and a server URL
HasCredential(data) ==
    /\ data.status = "ok"
    /\ (data.participant_token # "" \/ data.accessToken # "" \/ data.token # "")
    /\ (data.server_url # "" \/ data.livekit_url # "")

\* C5: a well-formed credential response takes a disconnected controller to
\* Connecting, and a join that succeeds takes it from Connecting to
\* Connected, with no retry: the counter is not incremented, no backoff
\* timer is set, no watchdog stays armed, and retryCount is 0 in Connected.
C5_ConnectsWithoutRetry ==
    [][/\ (/\ last'.op \in {"credential", "credentialError"}
           /\ sessionParams
           /\ HasCredential(last'.data)
           /\ connectionState = Disconnected)
             => /\ connectionState' = Connecting
                /\ retryAttempts' = retryAttempts
                /\ backoffTimers' = backoffTimers
       /\ last'.op = "connected"
             => /\ connectionState = Connecting
                /\ connectionState' = Connected
                /\ backoffTimers' = backoffTimers
                /\ watchdog' = NoTimer
       /\ connectionState' = Connected => retryAttempts' = 0]_vars

\* the first attempt of a start() has connected
C5_Witness ==
    /\ last.op = "connected"
    /\ connectionState = Connected
    /\ attempts = 1
    /\ fetchSucceeded
    /\ retryAttempts = 0
    /\ Quiescent

\* C6: a manual start() issued with the retry budget used up resets
\* retryCount to 0.
C6_ManualStartResetsRetryCount ==
    [][(last'.op = "handleConnect" /\ retryAttempts = maxRetries)
          => retryAttempts' = 0]_vars

\* C7: the controller always eventually leaves Connecting/Reconnecting,
\* whether or not the transport reports anything.
C7_LeavesConnecting ==
    (connectionState \in InProgress) ~> (connectionState \notin InProgress)

\* C8: from every state that is not Connected the start control is or
\* becomes enabled (unless the session connects first).
C8_StartBecomesEnabled ==
    (connectionState # Connected)
        ~> (StartEnabled \/ connectionState = Connected)

\* C9: a transport drop takes Connected to Reconnecting and arms the
\* watchdog; when that watchdog fires, the retry step is the one of
\* Connecting: with budget left the counter is incremented, the session
\* ended and a start() scheduled after 700 ms times the new counter, and
\* with the budget used up nothing is retried.
C9_ReconnectingSameRetryPolicy ==
    [][/\ last'.op = "transportDrop"
             => /\ connectionState = Connected
                /\ connectionState' = Reconnecting
                /\ watchdog' = Reconnecting
                /\ retryAttempts' = retryAttempts
       /\ (last'.op = "watchdog" /\ watchdog \in InProgress)
             => IF retryAttempts < maxRetries
                THEN /\ retryAttempts' = retryAttempts + 1
                     /\ connectionState' = Disconnected
                     /\ backoffTimers' =
                          Append(backoffTimers, 700 * retryAttempts')
                ELSE /\ retryAttempts' = retryAttempts
                     /\ backoffTimers' = backoffTimers]_vars

\* the watchdog armed in Reconnecting has fired and scheduled a retry
C9_Witness ==
    /\ last.op = "watchdog"
    /\ last.from = Reconnecting
    /\ retryAttempts = 1
    /\ connectionState = Disconnected
    /\ backoffTimers = <<700>>

\* C10: no start() is issued while a session is Connecting, Connected or
\* Reconnecting unless that session has been ended first.
C10_StartOnlyAfterEnd ==
    [][last'.op \in {"handleConnect", "backoff"}
          => connectionState = Disconnected]_vars

\* the merged view TranscriptView renders
View == allSegments(transcriptData)

\* C11: the merged view is sorted by timestamp, non-decreasing, and of an
\* agent entry and a user entry with equal timestamps the agent entry comes
\* first.
C11_ViewSortedAgentFirst ==
    \A i, j \in DOMAIN View :
        i < j =>
            /\ View[i].timestamp <= View[j].timestamp
            /\ View[i].timestamp = View[j].timestamp
                 => ~(View[i].role = "user" /\ View[j].role = "agent")

\* three entries, an agent entry and a user entry of the same timestamp
\* among them, the user's segment sitting between two of the agent
C11_Witness ==
    /\ Len(View) = 3
    /\ View[1].role = "agent"
    /\ View[2].role = "user"
    /\ View[3].role = "agent"
    /\ View[1].timestamp = View[2].timestamp
    /\ View[2].timestamp < View[3].timestamp

\* C12: an update that repeats the content its (role, id) already has leaves
\* the merged view as it was: the same entries in the same order.
C12_RepeatedUpdateKeepsView ==
    [][last'.op = "transcriptionSame"
          => allSegments(transcriptData') = allSegments(transcriptData)]_vars

\* an update has repeated the content of a segment the view shows
C12_Witness ==
    /\ last.op = "transcriptionSame"
    /\ Len(View) = 3
    /\ \E i \in DOMAIN View :
        /\ View[i].role = last.data.role
        /\ View[i].id = last.data.id
        /\ View[i].timestamp # last.data.firstReceivedTime

\* C13: after an update the merged view has at most one entry per
\* (role, id); the entry of the updated (role, id) is there exactly when its
\* text is not blank, and carries the text and the final flag of the update
\* and the time of the first update of that id.
C13_UpdateReplacesInPlace ==
    [][last'.op \in {"transcription", "transcriptionSame"} =>
        \A v \in {allSegments(transcriptData')} :
        \A u \in {last'.data} :
        \A old \in {IF u.role = "agent" THEN agentSegments
                     ELSE userSegments} :
        \A k \in {IndexOf(old, u.id)} :
        \A mine \in {{i \in DOMAIN v :
                         v[i].role = u.role /\ v[i].id = u.id}} :
            /\ \A i, j \in DOMAIN v :
                 (v[i].role = v[j].role /\ v[i].id = v[j].id) => i = j
            /\ Cardinality(mine) = IF Trim(u.text) # "" THEN 1 ELSE 0
            /\ \A i \in mine :
                 /\ v[i].text = u.text
                 /\ v[i].isFinal = u.final
                 /\ v[i].timestamp =
                      IF k = 0 THEN u.firstReceivedTime
                      ELSE old[k].firstReceivedTime]_vars

\* the user's interim segment of time 1 has been made final by an update
\* that came after the agent's final segment of time 0: the view is
\* [agent, user], the user's entry final and still of time 1
C13_Witness ==
    /\ last.op = "transcription"
    /\ last.data.role = "user"
    /\ last.data.final
    /\ last.data.firstReceivedTime = 0
    /\ Len(View) = 2
    /\ View[1].role = "agent" /\ View[1].isFinal /\ View[1].timestamp = 0
    /\ View[2].role = "user" /\ View[2].isFinal /\ View[2].timestamp = 1
    /\ View[2].id = last.data.id

\* the message is the one the interface describes: type rag_sources with a
\* non-empty array of sources
ValidMessage(msg) ==
    /\ msg.parses = "object"
    /\ msg.type = "rag_sources"
    /\ msg.sources.kind = "array"
    /\ Len(msg.sources.items) >= 1

\* C14: a message of type rag_sources with sources s1..sn, n >= 1, makes the
\* citation set exactly s1..sn in that order; a message of another type
\* leaves the citation set as it was.
C14_ValidMessageReplaces ==
    [][last'.op = "ragSources" =>
        /\ ValidMessage(last'.data) => ragSources' = last'.data.sources
        /\ (last'.data.parses = "object" /\ last'.data.type # "rag_sources")
             => ragSources' = ragSources]_vars

\* the citation set is the two sources A, B of the message that came last
C14_Witness ==
    /\ last.op = "ragSources"
    /\ ValidMessage(last.data)
    /\ last.data.sources.items = <<[content |-> "A"], [content |-> "B"]>>
    /\ ragSources = last.data.sources

\* C15: a message that is not of type rag_sources with a non-empty sources
\* array leaves the citation set exactly as it was.
C15_OtherMessagesDropped ==
    [][(last'.op = "ragSources" /\ ~ValidMessage(last'.data))
          => ragSources' = ragSources]_vars

\* C16: when a session has been ended, and when a session is started, the
\* citation set is empty.
C16_CitationsClearedBetweenSessions ==
    last.op \in {"handleDisconnect", "handleConnect"}
        => ragSources = [kind |-> "array", items |-> <<>>]

\* the first of the fields that is present and not empty, "" if none is
FirstPresent(fields) ==
    IF \E i \in DOMAIN fields : fields[i] # ""
    THEN fields[CHOOSE i \in DOMAIN fields :
                   /\ fields[i] # ""
                   /\ \A j \in 1..(i - 1) : fields[j] = ""]
    ELSE ""

\* C17: the credential adapter returns a credential only when token and URL
\* are both present and non-empty, the token being the first present of
\* participant_token, accessToken, token and the URL the first present of
\* server_url, livekit_url; otherwise it fails with an error and the room
\* is not joined.
C17_CredentialCompleteOrError ==
    [][last'.op \in {"credential", "credentialError"} =>
        \A d \in {last'.data} :
        \A got \in {tokenSource(sessionParams, d)} :
        \A tok \in {FirstPresent(<<d.participant_token, d.accessToken,
                                   d.token>>)} :
        \A url \in {FirstPresent(<<d.server_url, d.livekit_url>>)} :
            /\ got.ok <=> last'.op = "credential"
            /\ got.ok <=> /\ sessionParams
                          /\ d.status = "ok"
                          /\ tok # ""
                          /\ url # ""
            /\ got.ok => /\ got.participantToken = tok
                         /\ got.serverUrl = url
            /\ ~got.ok => /\ got.error # ""
                          /\ got.participantToken = ""
                          /\ got.serverUrl = ""
                          /\ connectionState' = connectionState]_vars

\* a response with the second token alias and the second URL alias only
\* (and the third token alias, which is not taken) has started the join
C17_Witness ==
    /\ last.op = "credential"
    /\ last.data.participant_token = ""
    /\ last.data.accessToken = "t2"
    /\ last.data.token = "t3"
    /\ last.data.server_url = ""
    /\ last.data.livekit_url = "wss://y"
    /\ connectionState = Connecting

\* C18: any two session attempts call the credential provider with
\* different roomName and participantName values (stated for an attempt and
\* the one before it).
C18_FreshNamesPerAttempt ==
    [][(/\ last'.op \in {"credential", "credentialError"}
        /\ sessionParams
        /\ last.request # NoRequest)
          => /\ last'.request.roomName # last.request.roomName
             /\ last'.request.participantName
                  # last.request.participantName]_vars

\* C19: while push-to-talk is active, pointer-up, pointer-cancel and window
\* blur each make the talk flag false and issue a microphone-disable.
C19_InputLossReleases ==
    [][(last'.op \in ReleaseEvents /\ isPushToTalkActive)
          => /\ ~isPushToTalkActive'
             /\ Len(micOps') > Len(micOps)
             /\ micOps'[Len(micOps')] = "disable"]_vars

\* C20: in every state the talk flag is true if and only if the microphone
\* is publishing.
C20_FlagIffPublishing == isPushToTalkActive <=> microphoneEnabled

\* C21: when enabling the microphone fails, the talk flag is false
\* afterwards.
C21_EnableFailureClearsFlag ==
    [][last'.op = "micError" => ~isPushToTalkActive']_vars

\* C22: the watchdog that is pending was armed on the entry to the current
\* state, which is Connecting or Reconnecting (the one of an earlier entry
\* has been cancelled), and a watchdog that fires was armed for the state
\* the controller is in and leaves none pending.
C22_OneWatchdogForCurrentState ==
    [][/\ watchdog' # NoTimer
             => /\ watchdog' = connectionState'
                /\ connectionState' \in InProgress
       /\ connectionState' \notin InProgress => watchdog' = NoTimer
       /\ last'.op = "watchdog"
             => /\ watchdog = connectionState
                /\ watchdog' = NoTimer]_vars

\* the watchdog of Reconnecting has fired, after the one of Connecting was
\* cancelled by the entry to Connected
C22_Witness ==
    /\ last.op = "watchdog"
    /\ last.from = Reconnecting
    /\ watchdog = NoTimer

\* C23: at most one backoff timer is pending; a retry of the watchdog
\* schedules one timer and calls start() zero times; the timer, when it
\* fires, is gone and has called start() exactly once.
C23_BackoffTimerNotStacked ==
    [][/\ Len(backoffTimers') <= 1
       /\ (last'.op = "watchdog" /\ RetryAllowed(retryAttempts, watchdog))
             => /\ backoffTimers = <<>>
                /\ Len(backoffTimers') = 1
                /\ fetching' + waiting' = fetching + waiting
       /\ last'.op = "backoff"
             => /\ Len(backoffTimers) = 1
                /\ backoffTimers' = <<>>
                /\ fetching' + waiting' = fetching + waiting + 1]_vars

\* the timer of the second retry has fired
C23_Witness ==
    /\ last.op = "backoff"
    /\ retryAttempts = maxRetries
    /\ backoffTimers = <<>>

\* C24: every transition into Connected leaves retryCount at 0, also after
\* one or two automatic retries, and a transport drop that follows enters
\* Reconnecting with retryCount 0.
C24_ConnectedResetsRetryCount ==
    [][/\ connectionState' = Connected => retryAttempts' = 0
       /\ last'.op = "transportDrop"
             => /\ connectionState' = Reconnecting
                /\ retryAttempts' = 0
                /\ RetryAllowed(retryAttempts', watchdog')]_vars

\* Connected has been entered by the third attempt, after two retries
C24_Witness ==
    /\ last.op = "connected"
    /\ attempts = 1 + maxRetries
    /\ retryAttempts = 0

\* a second end() changes nothing of the controller
EndTwiceAsOnce(c) == AfterEnd(AfterEnd(c)) = AfterEnd(c)

\* C25: end() called twice in a row, or while Disconnected, leaves the
\* controller as one call does: Disconnected, the same retryCount, no timer
\* pending.
C25_EndIdempotent ==
    [][last'.op = "handleDisconnect" =>
        /\ Controller' = AfterEnd(Controller)
        /\ EndTwiceAsOnce(Controller)
        /\ AfterEnd(Controller') = Controller'
        /\ connectionState' = Disconnected
        /\ retryAttempts' = retryAttempts
        /\ watchdog' = NoTimer
        /\ backoffTimers' = <<>>]_vars

\* a setMicrophoneEnabled(true) of startTalking has not settled
EnablePending == \E i \in DOMAIN micOps : micOps[i] = "enable"

\* C26: when the session ends with a microphone-enable pending, the
\* operation is cancelled: the microphone is not publishing, nothing is
\* pending and the talk flag is false in the ended session.
C26_EndCancelsPendingEnable ==
    [][(/\ EnablePending
        /\ connectionState # Disconnected
        /\ connectionState' = Disconnected)
          => /\ ~microphoneEnabled'
             /\ micOps' = <<>>
             /\ ~isPushToTalkActive']_vars

\* C27: when the button has been released and every microphone operation
\* has settled, the microphone is disabled, in whatever order the enable
\* and disable calls completed.
C27_ReleasedAndSettledIsMuted ==
    (~isPushToTalkActive /\ micOps = <<>>) => ~microphoneEnabled

DeviceErrors == {"micError", "micMuteError", "switchError"}

\* C28: a failure of microphone enable, microphone disable or device switch
\* leaves the connection state, retryCount and the pending connection
\* timers unchanged.
C28_DeviceErrorIsLocal ==
    [][last'.op \in DeviceErrors
          => UNCHANGED <<connectionState, retryAttempts, watchdog,
                         backoffTimers, waiting, fetching>>]_vars

\* the switch of the device has failed in a
\* reconnecting session with its watchdog pending
C28_Witness ==
    /\ last.op = "switchError"
    /\ connectionState = Reconnecting
    /\ watchdog = Reconnecting

\* the text is there and is more than white space
NonBlank(text) == text \notin {NoText, "", " "}

\* the segments of a role that the App holds
SegmentsOf(role) ==
    IF role = "agent" THEN transcriptData.agent ELSE transcriptData.user

\* C29: the merged view holds exactly the segments of both roles whose text
\* is not blank: none with an empty, blank or missing text, every other one,
\* each once.
C29_ViewIsTheNonBlankSegments ==
    \A v \in {allSegments(transcriptData)} :
        /\ \A role \in {"agent", "user"} :
           \A i \in DOMAIN SegmentsOf(role) :
               NonBlank(SegmentsOf(role)[i].text)
                 <=> \E k \in DOMAIN v :
                        /\ v[k].role = role
                        /\ v[k].id = SegmentsOf(role)[i].id
                        /\ v[k].text = SegmentsOf(role)[i].text
        /\ \A k \in DOMAIN v : NonBlank(v[k].text)
        /\ Len(v) =
             Cardinality({i \in DOMAIN transcriptData.agent :
                             NonBlank(transcriptData.agent[i].text)})
               + Cardinality({i \in DOMAIN transcriptData.user :
                                 NonBlank(transcriptData.user[i].text)})

\* of three segments forwarded, one without text and one blank, the view
\* shows the third
C29_Witness ==
    /\ last.op = "forward"
    /\ Len(transcriptData.agent) = 2
    /\ Len(transcriptData.user) = 1
    /\ transcriptData.agent[1].text = NoText
    /\ transcriptData.agent[2].text = "a "
    /\ transcriptData.user[1].text = " "
    /\ Len(allSegments(transcriptData)) = 1

\* C30: segments of the two streams with the same id are two entries of the
\* merged view with distinct identities.
C30_RoleDisambiguatesIds ==
    \A v \in {allSegments(transcriptData)} :
    \A i, j \in DOMAIN v :
        i # j => RenderKey(v[i]) # RenderKey(v[j])

\* what a segment is shown as
Shown(role, seg) ==
    [role |-> role, text |-> seg.text, id |-> seg.id, isFinal |-> seg.final,
     timestamp |-> seg.firstReceivedTime]

\* the entries by repeated choice of the first one of the least timestamp
RECURSIVE LeastFirst(_)
LeastFirst(entries) ==
    IF entries = <<>> THEN <<>>
    ELSE LET m == CHOOSE i \in DOMAIN entries :
                    /\ \A j \in DOMAIN entries :
                         entries[j].timestamp >= entries[i].timestamp
                    /\ \A j \in 1..(i - 1) :
                         entries[j].timestamp > entries[i].timestamp
         IN  <<entries[m]>> \o LeastFirst(Without(entries, m))

\* the merged view computed once from the contents of the two streams
MergedOnce(agent, user) ==
    LET keep(seg) == NonBlank(seg.text) IN
    LeastFirst([i \in DOMAIN SelectSeq(agent, keep) |->
                   Shown("agent", SelectSeq(agent, keep)[i])]
                 \o [i \in DOMAIN SelectSeq(user, keep) |->
                       Shown("user", SelectSeq(user, keep)[i])])

\* C31: the merged view is a function of the segments the streams hold:
\* recomputed at every update or once after a batch of updates, it is the
\* sequence that one computation from those segments gives.
C31_ViewIsFunctionOfContents ==
    transcriptData = [agent |-> agentSegments, user |-> userSegments]
        => allSegments(transcriptData)
             = MergedOnce(agentSegments, userSegments)

\* an update has been merged into a view of three entries
C31_Witness ==
    /\ last.op = "transcription"
    /\ Len(allSegments(transcriptData)) = 3
    /\ allSegments(transcriptData)[1].role = "user"

\* C32: the talk flag is true only while the session is Connected: in
\* Disconnected, Connecting and Reconnecting it is false.
C32_TalkOnlyWhileConnected ==
    isPushToTalkActive => connectionState = Connected

\* C33: retryCount stays within 0..maxRetries; it grows only by one, in a
\* watchdog that fires in Connecting or Reconnecting with budget left; a
\* watchdog that fires with the budget used up, or in another state, changes
\* neither retryCount nor the session.
C33_RetryCountBounded ==
    [][/\ retryAttempts' \in 0..maxRetries
       /\ retryAttempts' > retryAttempts
             => /\ last'.op = "watchdog"
                /\ watchdog \in InProgress
                /\ retryAttempts < maxRetries
                /\ retryAttempts' = retryAttempts + 1
       /\ (/\ last'.op = "watchdog"
           /\ (retryAttempts >= maxRetries \/ watchdog \notin InProgress))
             => UNCHANGED <<retryAttempts, connectionState, backoffTimers,
                            fetching, waiting, attempts>>]_vars

\* a watchdog has fired with the budget used up and has left the session
\* as it was
C33_Witness ==
    /\ last.op = "watchdog"
    /\ retryAttempts = maxRetries
    /\ connectionState \in InProgress
    /\ backoffTimers = <<>>

\* C34: every session.start of the controller, the user's and the retry's,
\* asks for the microphone disabled and the pre-connect buffer off.
C34_StartsWithMicrophoneOff ==
    [][last'.start.called
          => /\ last'.start.microphone = "disabled"
             /\ last'.start.preConnectBuffer = "off"]_vars

\* ---------------------------------------------------- document upload
\* DocumentUpload (App renders it at all times) and the three calls of
\* lib/api.js it makes.  A request settles at any time after it was made;
\* the 5000 ms timers of the error message fire oldest first.

\* requests in flight plus error timers pending, at most
MaxRequests == 2

\* delay of the timer that clears the error message
ErrorTimerMs == 5000

\* doc_id of the documents; the file of name d is indexed as document d
Docs == {"d1", "d2"}

\* the order in which the backend lists its documents
DocOrder == <<"d1", "d2">>

\* the FileList of one drop or one choice of the file input
FileLists == {<<>>, <<"d1">>, <<"d1", "d2">>}

\* how a fetch can settle: rejected (network), a response that is not ok
\* (body {detail}, a JSON body with no detail, a body that is no JSON), or
\* a response that is ok (a JSON body, the body {}, a body that is no JSON)
ApiResponses ==
    { [kind |-> "network", body |-> "none"],
      [kind |-> "http", body |-> "detail"],
      [kind |-> "http", body |-> "empty"],
      [kind |-> "http", body |-> "invalid"],
      [kind |-> "ok", body |-> "json"],
      [kind |-> "ok", body |-> "empty"],
      [kind |-> "ok", body |-> "invalid"] }

\* variant: apiFetch does not look at response.ok
apiFetch_IgnoresStatus(resp) ==
    IF resp.kind = "network"
    THEN [threw |-> TRUE, message |-> "Failed to fetch"]
    ELSE IF resp.body = "invalid"
    THEN [threw |-> TRUE, message |-> "Unexpected end of JSON input"]
    ELSE [threw |-> FALSE, message |-> ""]

\* apiFetch: throws when fetch rejects, when the response is not ok (the
\* message is error.detail, else `HTTP ${status}`, and the detail is
\* 'Unknown error' when the body is no JSON), and when response.json()
\* rejects on the body of an ok response
apiFetch(resp) ==
    IF resp.kind = "network"
    THEN [threw |-> TRUE, message |-> "Failed to fetch"]
    ELSE IF resp.kind = "http"
    THEN [threw |-> TRUE,
          message |-> IF resp.body = "invalid" THEN "Unknown error"
                      ELSE IF resp.body = "detail" THEN "Not found"
                      ELSE "HTTP 500"]
    ELSE IF resp.body = "invalid"
    THEN [threw |-> TRUE, message |-> "Unexpected end of JSON input"]
    ELSE [threw |-> FALSE, message |-> ""]

\* the backend has carried out the request iff its response is ok
Served(resp) == resp.kind = "ok"

\* data.documents || [] of the response of getDocuments
documentsOf(resp, held) ==
    IF resp.body = "empty" THEN <<>>
    ELSE SelectSeq(DocOrder, LAMBDA d : d \in held)

\* prev.filter((d) => d.doc_id !== docId)
Filtered(prev, docId) == SelectSeq(prev, LAMBDA d : d # docId)

\* setError(err.message); setTimeout(() => setError(null), 5000): the
\* timers armed before are for errors no longer shown
Armed(timers) == Append([i \in DOMAIN timers |-> FALSE], TRUE)

\* the error shown is gone: no pending timer is for it
Stale(timers) == [i \in DOMAIN timers |-> FALSE]

\* handleUpload awaits uploadDocument(files[pos])
UploadCall(files, pos) ==
    [kind |-> "upload", files |-> files, pos |-> pos, id |-> files[pos]]

\* handleUpload awaits loadDocuments()
ReloadCall(files) ==
    [kind |-> "reload", files |-> files, pos |-> Len(files), id |-> ""]

\* handleDelete awaits deleteDocument(docId)
DeleteCall(docId) ==
    [kind |-> "delete", files |-> <<>>, pos |-> 0, id |-> docId]

\* the callback of DocumentUpload that ran, the call it resumed, the
\* response it was given, the error shown when it ran and whether the
\* oldest timer was armed for that error
RanDoc(op, call, resp) ==
    Ran(op, [call |-> call, response |-> resp, shown |-> error,
             own |-> errorTimers # <<>> /\ Head(errorTimers)])

\* the callback resumed no request
NoResponse == [kind |-> "none", body |-> "none"]

\* the callback resumed no call; files: the files it was given
NoCall(files) == [kind |-> "none", files |-> files, pos |-> 0, id |-> ""]

\* what DocumentUpload does not touch
Elsewhere == <<sessionVars, transcriptVars, ragSources, talkVars>>

\* files are dropped or chosen
handleUpload ==
    /\ \E files \in FileLists :
        /\ last' = RanDoc("handleUpload", NoCall(files), NoResponse)
        /\ IF Len(files) = 0
           THEN UNCHANGED docVars
           ELSE /\ Len(pending) + Len(errorTimers) < MaxRequests
                /\ uploading' = TRUE
                /\ error' = ""
                /\ errorTimers' = Stale(errorTimers)
                /\ pending' = Append(pending, UploadCall(files, 1))
                /\ UNCHANGED <<documents, deletingId, backend>>
    /\ UNCHANGED Elsewhere

\* uploadDocument(file) settles in handleUpload
UploadSettles ==
    /\ \E i \in DOMAIN pending, resp \in ApiResponses :
        /\ pending[i].kind = "upload"
        /\ \A call \in {pending[i]} : \A got \in {apiFetch(resp)} :
            /\ backend' = IF Served(resp) THEN backend \cup {call.id}
                          ELSE backend
            /\ IF got.threw
               THEN /\ error' = got.message
                    /\ errorTimers' = Armed(errorTimers)
                    /\ uploading' = FALSE
                    /\ pending' = Without(pending, i)
                    /\ last' = RanDoc("uploadFailed", call, resp)
               ELSE /\ pending' =
                         [pending EXCEPT ![i] =
                             IF call.pos < Len(call.files)
                             THEN UploadCall(call.files, call.pos + 1)
                             ELSE ReloadCall(call.files)]
                    /\ last' = RanDoc("uploaded", call, resp)
                    /\ UNCHANGED <<error, errorTimers, uploading>>
    /\ UNCHANGED <<documents, deletingId>>
    /\ UNCHANGED Elsewhere

\* getDocuments() settles in loadDocuments, called by the mount effect or
\* by handleUpload, which then leaves through its finally
LoadSettles ==
    /\ \E i \in DOMAIN pending, resp \in ApiResponses :
        /\ pending[i].kind \in {"load", "reload"}
        /\ \A call \in {pending[i]} : \A got \in {apiFetch(resp)} :
            /\ documents' = IF got.threw THEN documents
                            ELSE documentsOf(resp, backend)
            /\ uploading' = IF call.kind = "reload" THEN FALSE ELSE uploading
            /\ pending' = Without(pending, i)
            /\ last' = RanDoc(IF call.kind = "reload" THEN "reloaded"
                              ELSE "loaded", call, resp)
    /\ UNCHANGED <<error, deletingId, errorTimers, backend>>
    /\ UNCHANGED Elsewhere

\* the delete button of a listed document, disabled while deletingId is
\* that document
handleDelete ==
    /\ Len(pending) + Len(errorTimers) < MaxRequests
    /\ \E k \in DOMAIN documents :
        /\ deletingId # documents[k]
        /\ deletingId' = documents[k]
        /\ pending' = Append(pending, DeleteCall(documents[k]))
        /\ last' = RanDoc("handleDelete", DeleteCall(documents[k]),
                          NoResponse)
    /\ UNCHANGED <<documents, uploading, error, errorTimers, backend>>
    /\ UNCHANGED Elsewhere

\* deleteDocument(docId) settles in handleDelete
DeleteSettles ==
    /\ \E i \in DOMAIN pending, resp \in ApiResponses :
        /\ pending[i].kind = "delete"
        /\ \A call \in {pending[i]} : \A got \in {apiFetch(resp)} :
            /\ backend' = IF Served(resp) THEN backend \ {call.id}
                          ELSE backend
            /\ IF got.threw
               THEN /\ error' = got.message
                    /\ errorTimers' = Armed(errorTimers)
                    /\ last' = RanDoc("deleteFailed", call, resp)
                    /\ UNCHANGED documents
               ELSE /\ documents' = Filtered(documents, call.id)
                    /\ last' = RanDoc("deleted", call, resp)
                    /\ UNCHANGED <<error, errorTimers>>
            /\ deletingId' = ""
            /\ pending' = Without(pending, i)
    /\ UNCHANGED uploading
    /\ UNCHANGED Elsewhere

\* the oldest 5000 ms timer fires: setError(null)
ErrorTimerFires ==
    /\ errorTimers # <<>>
    /\ error' = ""
    /\ errorTimers' = Stale(Tail(errorTimers))
    /\ last' = RanDoc("errorTimer", NoCall(<<>>), NoResponse)
    /\ UNCHANGED <<documents, uploading, deletingId, pending, backend>>
    /\ UNCHANGED Elsewhere

UploadNext ==
    \/ handleUpload
    \/ UploadSettles
    \/ LoadSettles
    \/ handleDelete
    \/ DeleteSettles
    \/ ErrorTimerFires

\* DocumentUpload over any documents the backend holds when it mounts
UploadInit ==
    /\ connectionState = Disconnected
    /\ retryAttempts = 0
    /\ sessionParams = TRUE
    /\ watchdog = NoTimer
    /\ backoffTimers = <<>>
    /\ waiting = 0
    /\ fetching = 0
    /\ attempts = 0
    /\ fetchSucceeded = FALSE
    /\ last = [op |-> "init", from |-> Disconnected, data |-> NoData,
               start |-> NoStart, request |-> NoRequest]
    /\ agentSegments = <<>>
    /\ userSegments = <<>>
    /\ transcriptData = [agent |-> <<>>, user |-> <<>>]
    /\ ragSources = [kind |-> "array", items |-> <<>>]
    /\ isPushToTalkActive = FALSE
    /\ microphoneEnabled = FALSE
    /\ micOps = <<>>
    /\ activeDeviceId = ""
    /\ documents = <<>>
    /\ uploading = FALSE
    /\ error = ""
    /\ deletingId = ""
    /\ errorTimers = <<>>
    /\ pending = <<MountLoad>>
    /\ backend \in SUBSET Docs

UploadSpec == UploadInit /\ [][UploadNext]_vars

\* C35: a 5000 ms timer that clears an error message of DocumentUpload is
\* the timer armed for that message: a timer armed for an earlier error
\* never clears a later one.
C35_ErrorClearedByOwnTimer ==
    [][(last'.op = "errorTimer" /\ error # "") => Head(errorTimers)]_vars

\* C36: when a call of handleUpload completes the uploading flag is false,
\* and if at least one of its files was uploaded the call has reloaded the
\* document list, also when a later file of the batch failed.
C36_ReloadedAfterAnyUpload ==
    [][last'.op \in {"uploadFailed", "reloaded"}
          => /\ uploading' = FALSE
             /\ last'.data.call.pos > 1 => last'.op = "reloaded"]_vars

\* C37: when deleteDocument settles in handleDelete the document leaves the
\* displayed list only if the backend has deleted it; if the backend has
\* not, the list is unchanged and the error is set; either way deletingId
\* is null afterwards, also while another delete is in flight.
C37_DeleteSettles ==
    [][last'.op \in {"deleted", "deleteFailed"}
          => /\ deletingId' = ""
             /\ documents' # documents
                   => /\ Served(last'.data.response)
                      /\ documents'
                           = Filtered(documents, last'.data.call.id)
             /\ ~Served(last'.data.response)
                   => /\ documents' = documents
                      /\ error' # ""
                      /\ error' = apiFetch(last'.data.response).message]_vars

\* a delete of a listed document has failed while another is in flight
C37_Witness ==
    /\ last.op = "deleteFailed"
    /\ ~Served(last.data.response)
    /\ \E k \in DOMAIN documents : documents[k] = last.data.call.id
    /\ \E i \in DOMAIN pending : pending[i].kind = "delete"
    /\ deletingId = ""
    /\ error # ""
====
